---- MODULE Spec2Model ----
(***************************************************************************)
(* Strava2Notion: the sync orchestration (sync.py) over the Notion store   *)
(* (notion.py).  The store is two collections: the activities database and *)
(* the planned-activities database.  main() fetches a list of activities   *)
(* and calls sync_activity on each, in order, counting successes and       *)
(* failures.  Every store call may raise; which calls raise is chosen      *)
(* nondeterministically for each sync_activity call.  A call that raises   *)
(* has not changed the store; a call that returns has.  Runs of main       *)
(* follow one another, any number of times, each over any list.            *)
(*                                                                         *)
(* Strings that the code takes apart (start_date) are sequences of chunks, *)
(* with "T" the time separator; Python dicts are functions whose DOMAIN    *)
(* is the set of keys present.                                             *)
(***************************************************************************)
EXTENDS Integers, Sequences, FiniteSets, TLC

VARIABLES
    activitiesDb,   \* Notion activities database: sequence of pages, page id = index
    plannedDb,      \* Notion planned database: sequence of pages, page id = index
    activities,     \* main: the list fetched from Strava (kept after the run ends)
    i,              \* main: number of activities of the list already processed
    success_count,  \* main: success_count
    failure_count,  \* main: failure_count
    pc,             \* main: "idle" (not running), "loop" (in the for loop), "done"
                    \* (returned), "fatal" (main re-raised an exception)
    environ,        \* the credentials set in the environment of the running process
    requests,       \* the requests the running process has sent to Strava
    log,            \* the outcome line sync_activity logged for each processed activity
    last,           \* the latest sync_activity call: its activity, whether the id was
                    \* in the store (present), whether the store changed, whether the
                    \* existence query / planned query / link write failed, the calls
                    \* made, values seen
    ran,            \* main has been invoked before
    sameBatch,      \* the running batch is the list the previous run processed
    prevFailed,     \* idle: the run that just ended counted a failure;
                    \* running: sameBatch, and that previous run counted a failure
    procs           \* concurrent invocations of sync_activity on one activity: where
                    \* each is in the function, and its locals (<<>> when main runs
                    \* alone)

vars == <<activitiesDb, plannedDb, activities, i, success_count, failure_count,
          pc, environ, requests, log, last, ran, sameBatch, prevFailed, procs>>

----------------------------------------------------------------------------
(* Bounds *)

MaxBatch == 2       \* longest activity list one run fetches

----------------------------------------------------------------------------
(* Python values *)

None == 0

\* dict.get(key, default)
Get(d, k, default) == IF k \in DOMAIN d THEN d[k] ELSE default

\* s.split('T')[0] if 'T' in s else s
RECURSIVE BeforeT(_)
BeforeT(s) ==
    IF s = <<>> \/ Head(s) = "T" THEN <<>> ELSE <<Head(s)>> \o BeforeT(Tail(s))

date_only(activity_date) ==
    IF \E k \in DOMAIN activity_date : activity_date[k] = "T"
    THEN BeforeT(activity_date)
    ELSE activity_date

----------------------------------------------------------------------------
(* sync.py: sport classification *)

SPORT_TYPE_MAP ==
    ("Run" :> "Run") @@ ("TrailRun" :> "Run") @@ ("VirtualRun" :> "Run") @@
    ("Ride" :> "Ride") @@ ("VirtualRide" :> "Ride") @@
    ("MountainBikeRide" :> "Ride") @@ ("GravelRide" :> "Ride") @@
    ("EBikeRide" :> "Ride") @@
    ("Swim" :> "Swim") @@ ("OpenWaterSwim" :> "Swim")

get_sport_type(activity) ==
    LET strava_type == Get(activity, "type", "")
        sport_type == Get(activity, "sport_type", strava_type)
    IN  Get(SPORT_TYPE_MAP, sport_type, "Other")

\* variant of Supported: nothing is skipped as unsupported
Supported_all(sport_type) == sport_type \in {"Run", "Ride", "Swim", "Other"}

\* sync_activity's test `sport_type not in ['Run', 'Ride', 'Swim']`, negated
Supported(sport_type) == sport_type \in {"Run", "Ride", "Swim"}

----------------------------------------------------------------------------
(* notion.py: the store operations.  `ok` says whether the Notion API call *)
(* the method makes succeeds; when it does not, the call raises inside the *)
(* method's try block.  Every result carries `raised`: whether the method  *)
(* lets an exception out to its caller.                                    *)

\* variant of QueryActivities: the filter compares the page id
QueryActivities_page(db, strava_id) ==
    {p \in DOMAIN db : p = strava_id}

\* databases.query on the activities database, filter "Strava ID" equals
QueryActivities(db, strava_id) ==
    {p \in DOMAIN db : db[p].StravaID = strava_id}

\* variants of activity_exists: never finds the page; needs two pages to say
\* yes; swallows the query's exception and answers no
activity_exists_never(db, strava_id, ok) ==
    IF ok
    THEN [raised |-> FALSE, value |-> Cardinality(QueryActivities(db, strava_id)) < 0]
    ELSE [raised |-> TRUE, value |-> FALSE]

activity_exists_two(db, strava_id, ok) ==
    IF ok
    THEN [raised |-> FALSE, value |-> Cardinality(QueryActivities(db, strava_id)) > 1]
    ELSE [raised |-> TRUE, value |-> FALSE]

activity_exists_swallow(db, strava_id, ok) ==
    IF ok
    THEN [raised |-> FALSE, value |-> Cardinality(QueryActivities(db, strava_id)) > 0]
    ELSE [raised |-> FALSE, value |-> FALSE]

\* the except block logs and re-raises
activity_exists(db, strava_id, ok) ==
    IF ok
    THEN [raised |-> FALSE, value |-> Cardinality(QueryActivities(db, strava_id)) > 0]
    ELSE [raised |-> TRUE, value |-> FALSE]

\* Numbers of the activity are exact fractions <<numerator, denominator>> with a
\* positive denominator; Zero is Python's default 0.
Zero == <<0, 1>>
Times(x, y) == <<x[1] * y[1], x[2] * y[2]>>
Over(x, y) == <<x[1] * y[2], x[2] * y[1]>>      \* x / y, y # 0
Positive(x) == x[1] > 0
\* Python truth of dict.get(key): the key is present and its number is not 0
Truthy(d, k) == k \in DOMAIN d /\ d[k][1] # 0

\* the sport-specific properties create_activity adds
SportProperties(activity_data, sport_type) ==
    IF sport_type = "Run"
    THEN LET avg_speed_kmh ==
                 IF Truthy(activity_data, "average_speed")
                 THEN Times(Get(activity_data, "average_speed", Zero), <<36, 10>>)
                 ELSE Zero
         IN  ("Average Pace" :>
                 (IF Positive(avg_speed_kmh) THEN Over(<<60, 1>>, avg_speed_kmh)
                  ELSE Zero))
             @@ (IF Truthy(activity_data, "average_heartrate")
                 THEN "Average HR" :> activity_data.average_heartrate ELSE <<>>)
             @@ (IF Truthy(activity_data, "average_cadence")
                 THEN "Cadence" :> Times(activity_data.average_cadence, <<2, 1>>)
                 ELSE <<>>)
    ELSE IF sport_type = "Ride"
    THEN LET avg_speed_kmh ==
                 IF Truthy(activity_data, "average_speed")
                 THEN Times(Get(activity_data, "average_speed", Zero), <<36, 10>>)
                 ELSE Zero
         IN  ("Average Speed" :> avg_speed_kmh)
             @@ (IF Truthy(activity_data, "average_watts")
                 THEN "Average Power" :> activity_data.average_watts ELSE <<>>)
             @@ (IF Truthy(activity_data, "average_heartrate")
                 THEN "Average HR" :> activity_data.average_heartrate ELSE <<>>)
    ELSE IF sport_type = "Swim"
    THEN LET avg_speed_mps == Get(activity_data, "average_speed", Zero)
         IN  IF Positive(avg_speed_mps)
             THEN "Average Pace" :> Over(Over(<<100, 1>>, avg_speed_mps), <<60, 1>>)
             ELSE <<>>
    ELSE <<>>

\* the page pages.create adds: the common properties, the sport-specific ones,
\* and the relation, empty until link_to_planned_activity sets it
NewPage(activity_data, sport_type) ==
    [Name |-> Get(activity_data, "name", "Untitled Activity"),
     StravaID |-> Get(activity_data, "id", None),
     Type |-> sport_type,
     Date |-> Get(activity_data, "start_date", None),
     Distance |-> Over(Get(activity_data, "distance", Zero), <<1000, 1>>),
     Duration |-> Over(Get(activity_data, "moving_time", Zero), <<60, 1>>),
     Elevation |-> Get(activity_data, "total_elevation_gain", Zero),
     PlannedActivity |-> <<>>]
    @@ SportProperties(activity_data, sport_type)

create_activity(db, activity_data, sport_type, ok) ==
    IF ok
    THEN [db |-> Append(db, NewPage(activity_data, sport_type)),
          page_id |-> Len(db) + 1, raised |-> FALSE]
    ELSE [db |-> db, page_id |-> None, raised |-> FALSE]

\* databases.query on the planned database: the ids of the pages matching
\* date AND type, in the store's order
RECURSIVE QueryPlanned(_, _, _, _)
QueryPlanned(pdb, date, sport_type, from) ==
    IF from > Len(pdb) THEN <<>>
    ELSE (IF pdb[from].Date = date /\ pdb[from].Type = sport_type
          THEN <<from>> ELSE <<>>)
         \o QueryPlanned(pdb, date, sport_type, from + 1)

\* variant of find_planned_activity: takes the last result
find_planned_activity_last(pdb, activity_date, sport_type, ok) ==
    IF ok
    THEN LET results == QueryPlanned(pdb, date_only(activity_date), sport_type, 1)
         IN  [planned_id |-> IF results # <<>> THEN results[Len(results)] ELSE None,
              raised |-> FALSE]
    ELSE [planned_id |-> None, raised |-> FALSE]

find_planned_activity(pdb, activity_date, sport_type, ok) ==
    IF ok
    THEN LET results == QueryPlanned(pdb, date_only(activity_date), sport_type, 1)
         IN  [planned_id |-> IF results # <<>> THEN results[1] ELSE None,
              raised |-> FALSE]
    ELSE [planned_id |-> None, raised |-> FALSE]

\* variant of link_to_planned_activity: the except block re-raises
link_to_planned_activity_raise(db, activity_id, planned_id, ok) ==
    IF ok
    THEN [db |-> [db EXCEPT ![activity_id].PlannedActivity = <<planned_id>>],
          ret |-> TRUE, raised |-> FALSE]
    ELSE [db |-> db, ret |-> FALSE, raised |-> TRUE]

\* variant of link_to_planned_activity: the except block returns True
link_to_planned_activity_true(db, activity_id, planned_id, ok) ==
    IF ok
    THEN [db |-> [db EXCEPT ![activity_id].PlannedActivity = <<planned_id>>],
          ret |-> TRUE, raised |-> FALSE]
    ELSE [db |-> db, ret |-> TRUE, raised |-> FALSE]

\* variant of link_to_planned_activity: updates the page planned_id names
link_to_planned_activity_swapped(db, activity_id, planned_id, ok) ==
    IF ok
    THEN [db |-> [db EXCEPT ![planned_id].PlannedActivity = <<activity_id>>],
          ret |-> TRUE, raised |-> FALSE]
    ELSE [db |-> db, ret |-> FALSE, raised |-> FALSE]

link_to_planned_activity(db, activity_id, planned_id, ok) ==
    IF ok
    THEN [db |-> [db EXCEPT ![activity_id].PlannedActivity = <<planned_id>>],
          ret |-> TRUE, raised |-> FALSE]
    ELSE [db |-> db, ret |-> FALSE, raised |-> FALSE]

\* variant of update_planned_status: writes a fixed, different status name
update_planned_status_name(pdb, planned_id, status, ok) ==
    IF ok
    THEN [pdb |-> [pdb EXCEPT ![planned_id].Status = "Completed"], ret |-> TRUE,
          raised |-> FALSE]
    ELSE [pdb |-> pdb, ret |-> FALSE, raised |-> FALSE]

\* variant of update_planned_status: the except block re-raises
update_planned_status_raise(pdb, planned_id, status, ok) ==
    IF ok
    THEN [pdb |-> [pdb EXCEPT ![planned_id].Status = status], ret |-> TRUE,
          raised |-> FALSE]
    ELSE [pdb |-> pdb, ret |-> FALSE, raised |-> TRUE]

update_planned_status(pdb, planned_id, status, ok) ==
    IF ok
    THEN [pdb |-> [pdb EXCEPT ![planned_id].Status = status], ret |-> TRUE,
          raised |-> FALSE]
    ELSE [pdb |-> pdb, ret |-> FALSE, raised |-> FALSE]

----------------------------------------------------------------------------
(* sync.py: sync_activity *)

\* Which of the store calls of one sync_activity call succeed, if made.  A call
\* that fails ends the store calls of that sync_activity call (abort, no match,
\* no status write), so at most one call fails in each.
StoreCalls == {"exists", "create", "find", "link", "status"}

OkPatterns ==
    {[call \in StoreCalls |-> call # failing] : failing \in StoreCalls \cup {"none"}}

\* the record of a call that has called nothing yet
NoCalls ==
    [ret |-> FALSE, line |-> "", exists |-> FALSE,
     sport_type |-> "", create_called |-> FALSE, activity_id |-> None,
     find_called |-> FALSE, planned_id |-> None, link_called |-> FALSE,
     link_success |-> FALSE, status_called |-> FALSE, status_ok |-> FALSE]

\* The result: the store afterwards (db, pdb), the value returned (ret), the
\* outcome line logged (line), and the calls made with the values they gave.
sync_activity(activity, db, pdb, ok) ==
    LET strava_id == Get(activity, "id", None)
        e == activity_exists(db, strava_id, ok.exists)
        sport_type == get_sport_type(activity)
        c == create_activity(db, activity, sport_type, ok.create)
        activity_id == c.page_id
        activity_date == Get(activity, "start_date", None)
        f == find_planned_activity(pdb, activity_date, sport_type, ok.find)
        planned_id == f.planned_id
        l == link_to_planned_activity(c.db, activity_id, planned_id, ok.link)
        u == update_planned_status(pdb, planned_id, "Done", ok.status)
        start == [db |-> db, pdb |-> pdb] @@ NoCalls
        checked == [start EXCEPT !.exists = e.value]
        classified == [checked EXCEPT !.sport_type = sport_type]
        created == [classified EXCEPT !.db = c.db, !.create_called = TRUE,
                                      !.activity_id = activity_id]
        matched == [created EXCEPT !.find_called = TRUE, !.planned_id = planned_id]
        linked == [matched EXCEPT !.db = l.db, !.link_called = TRUE,
                                  !.link_success = l.ret]
        updated == [linked EXCEPT !.pdb = u.pdb, !.status_called = TRUE,
                                  !.status_ok = u.ret]
    IN  IF e.raised                                 \* except Exception
        THEN [start EXCEPT !.line = "error"]
        ELSE IF e.value                             \* already exists
        THEN [checked EXCEPT !.ret = TRUE, !.line = "duplicate"]
        ELSE IF ~Supported(sport_type)
        THEN [classified EXCEPT !.ret = TRUE, !.line = "unsupported"]
        ELSE IF c.raised                            \* except Exception
        THEN [created EXCEPT !.line = "error"]
        ELSE IF activity_id = None                  \* if not activity_id
        THEN [created EXCEPT !.line = "create_failed"]
        ELSE IF f.raised                            \* except Exception
        THEN [matched EXCEPT !.line = "error"]
        ELSE IF planned_id = None
        THEN [matched EXCEPT !.ret = TRUE, !.line = "synced"]
        ELSE IF l.raised                            \* except Exception
        THEN [linked EXCEPT !.line = "error"]
        ELSE IF ~l.ret
        THEN [linked EXCEPT !.ret = TRUE, !.line = "synced"]
        ELSE IF u.raised                            \* except Exception
        THEN [updated EXCEPT !.line = "error"]
        ELSE [updated EXCEPT !.ret = TRUE, !.line = "synced"]

----------------------------------------------------------------------------
(* sync.py: main *)

\* variant of main_count: a failure is not counted
main_count_nofail(sc, fc, ret) ==
    IF ret THEN [success_count |-> sc + 1, failure_count |-> fc]
    ELSE [success_count |-> sc, failure_count |-> fc]

\* variant of main_count: a failure is counted as a success too
main_count_both(sc, fc, ret) ==
    IF ret THEN [success_count |-> sc + 1, failure_count |-> fc]
    ELSE [success_count |-> sc + 1, failure_count |-> fc + 1]

\* the loop body's counting: [success_count, failure_count] after one result
main_count(sc, fc, ret) ==
    IF ret THEN [success_count |-> sc + 1, failure_count |-> fc]
    ELSE [success_count |-> sc, failure_count |-> fc + 1]

----------------------------------------------------------------------------
(* strava.py, notion.py: the clients main builds, and the fetch *)

StravaCredentials ==
    {"STRAVA_CLIENT_ID", "STRAVA_CLIENT_SECRET", "STRAVA_REFRESH_TOKEN"}

NotionCredentials ==
    {"NOTION_TOKEN", "NOTION_ACTIVITIES_DB_ID", "NOTION_PLANNED_DB_ID"}

\* Environments: each names the variables set (to a non-empty value); all six,
\* all but one, or none
Environs ==
    LET all == StravaCredentials \cup NotionCredentials
    IN  {all, {}} \cup {all \ {c} : c \in all}

\* variant of get_notion_client: `any` for `all`
get_notion_client_any(env) == [raised |-> NotionCredentials \cap env = {}]

\* `if not all([...]): raise ValueError`; no request is sent
get_strava_client(env) == [raised |-> ~(StravaCredentials \subseteq env)]

get_notion_client(env) == [raised |-> ~(NotionCredentials \subseteq env)]

\* get_activities of a new client: the token refresh, then the activities
\* request; either may fail, and the failure is re-raised
FetchOutcomes == {"ok", "token_failed", "activities_failed"}

get_activities(fetch) ==
    IF fetch = "token_failed"
    THEN [raised |-> TRUE, requests |-> <<"token">>]
    ELSE [raised |-> fetch # "ok", requests |-> <<"token", "activities">>]

\* main from its try to the fetch
main_setup(env, fetch) ==
    LET strava_client == get_strava_client(env)
        notion_client == get_notion_client(env)
        fetched == get_activities(fetch)
    IN  IF strava_client.raised
        THEN [raised |-> TRUE, requests |-> <<>>]
        ELSE IF notion_client.raised
        THEN [raised |-> TRUE, requests |-> <<>>]
        ELSE fetched

\* Activities Strava may return (dicts; a key that is absent is not in DOMAIN)
Pool ==
    { [id |-> 1, type |-> "Run", sport_type |-> "Run",
       start_date |-> <<"2024-05-01", "T", "07:00:00Z">>],
      [id |-> 2, type |-> "Run", sport_type |-> "TrailRun",
       start_date |-> <<"2024-05-01", "T", "18:30:00Z">>],
      [id |-> 3, type |-> "Ride",
       start_date |-> <<"2024-05-02">>],
      [id |-> 4, type |-> "Yoga", sport_type |-> "Yoga",
       start_date |-> <<"2024-05-01", "T", "07:00:00Z">>] }

Batches == UNION {[1..n -> Pool] : n \in 0..MaxBatch}

\* The planned database as it is when the first run starts
PlannedAtStart ==
    << [Date |-> <<"2024-05-01">>, Type |-> "Run", Status |-> "Pending"],
       [Date |-> <<"2024-05-01">>, Type |-> "Run", Status |-> "Pending"],
       [Date |-> <<"2024-05-01">>, Type |-> "Ride", Status |-> "Pending"] >>

NoSync ==
    [activity |-> [id |-> None], present |-> FALSE, changed |-> FALSE,
     exists_failed |-> FALSE, find_failed |-> FALSE, link_failed |-> FALSE,
     planned_changed |-> FALSE,
     ret |-> FALSE, line |-> "", exists |-> FALSE,
     sport_type |-> "", create_called |-> FALSE, activity_id |-> None,
     find_called |-> FALSE, planned_id |-> None, link_called |-> FALSE,
     link_success |-> FALSE, status_called |-> FALSE, status_ok |-> FALSE]

Init ==
    /\ activitiesDb = <<>>
    /\ plannedDb = PlannedAtStart
    /\ activities = <<>>
    /\ i = 0
    /\ success_count = 0
    /\ failure_count = 0
    /\ pc = "idle"
    /\ environ = {}
    /\ requests = <<>>
    /\ log = <<>>
    /\ last = NoSync
    /\ ran = FALSE
    /\ sameBatch = FALSE
    /\ prevFailed = FALSE
    /\ procs = <<>>

\* main up to the loop: the clients, then the fetch; an empty list returns at
\* once
main_fetch ==
    /\ pc = "idle"
    /\ \E env \in Environs, fetch \in FetchOutcomes :
        LET setup == main_setup(env, fetch)
        IN  /\ ~setup.raised
            /\ environ' = env
            /\ requests' = setup.requests
    /\ \E acts \in Batches :
        /\ activities' = acts
        /\ sameBatch' = (ran /\ acts = activities)
        /\ prevFailed' = (ran /\ acts = activities /\ prevFailed)
        /\ pc' = IF acts = <<>> THEN "done" ELSE "loop"
    /\ ran' = TRUE
    /\ UNCHANGED <<activitiesDb, plannedDb, i, success_count, failure_count,
                   log, last,
                   procs>>

\* main up to the loop, when a client cannot be built or the fetch raises: the
\* except block logs the fatal error and re-raises
main_fatal ==
    /\ pc = "idle"
    /\ \E env \in Environs, fetch \in FetchOutcomes :
        LET setup == main_setup(env, fetch)
        IN  /\ setup.raised
            /\ environ' = env
            /\ requests' = setup.requests
    /\ pc' = "fatal"
    /\ UNCHANGED <<activitiesDb, plannedDb, activities, i, success_count,
                   failure_count, log, last, ran, sameBatch, prevFailed,
                   procs>>

\* one iteration of the for loop: sync_activity on the next activity, counted
main_loop ==
    /\ pc = "loop"
    /\ i < Len(activities)
    /\ \E ok \in OkPatterns :
        LET activity == activities[i + 1]
            r == sync_activity(activity, activitiesDb, plannedDb, ok)
            n == main_count(success_count, failure_count, r.ret)
        IN  /\ activitiesDb' = r.db
            /\ plannedDb' = r.pdb
            /\ success_count' = n.success_count
            /\ failure_count' = n.failure_count
            /\ log' = Append(log, r.line)
            /\ last' = [f \in DOMAIN NoSync |->
                          CASE f = "activity" -> activity
                            [] f = "present" ->
                                 (\E p \in DOMAIN activitiesDb :
                                     activitiesDb[p].StravaID = activity.id)
                            [] f = "changed" ->
                                 r.db # activitiesDb \/ r.pdb # plannedDb
                            [] f = "exists_failed" -> ~ok.exists
                            [] f = "find_failed" -> r.find_called /\ ~ok.find
                            [] f = "link_failed" -> r.link_called /\ ~ok.link
                            [] f = "planned_changed" -> r.pdb # plannedDb
                            [] OTHER -> r[f]]
    /\ i' = i + 1
    /\ UNCHANGED <<activities, pc, environ, requests, ran, sameBatch, prevFailed, procs>>

\* the loop is over: the summary line, and main returns
main_summary ==
    /\ pc = "loop"
    /\ i = Len(activities)
    /\ pc' = "done"
    /\ UNCHANGED <<activitiesDb, plannedDb, activities, i, success_count,
                   failure_count, environ, requests, log, last, ran, sameBatch,
                   prevFailed,
                   procs>>

\* the process exits; its locals are gone, the store stays (a run that ended
\* in a fatal error has processed no list: the previous list is still the last)
exit ==
    /\ pc \in {"done", "fatal"}
    /\ pc' = "idle"
    /\ prevFailed' = (IF pc = "fatal" THEN prevFailed ELSE failure_count > 0)
    /\ environ' = {}
    /\ requests' = <<>>
    /\ i' = 0
    /\ success_count' = 0
    /\ failure_count' = 0
    /\ log' = <<>>
    /\ last' = NoSync
    /\ sameBatch' = FALSE
    /\ UNCHANGED <<activitiesDb, plannedDb, activities, ran, procs>>

Next == main_fetch \/ main_fatal \/ main_loop \/ main_summary \/ exit

Spec == Init /\ [][Next]_vars

\* One run of main, up to its end; a run that has started goes on: every store
\* call returns or raises, and the loop is over a fixed list
NextRun == main_fetch \/ main_fatal \/ main_loop \/ main_summary

SpecRun == Init /\ [][NextRun]_vars /\ WF_vars(main_loop) /\ WF_vars(main_summary)

----------------------------------------------------------------------------
(* The sport classifier on its own: get_sport_type applied to one activity *)

Labels == DOMAIN SPORT_TYPE_MAP \cup {"Yoga", "Workout", ""}

\* activity dicts with the "type" and "sport_type" keys present or absent
ClassifyInputs ==
    {[id |-> 1] @@ t @@ st :
        t \in {<<>>} \cup {[type |-> x] : x \in Labels},
        st \in {<<>>} \cup {[sport_type |-> x] : x \in Labels}}

InitClassify ==
    /\ activitiesDb = <<>>
    /\ plannedDb = PlannedAtStart
    /\ activities \in {<<a>> : a \in ClassifyInputs}
    /\ i = 0
    /\ success_count = 0
    /\ failure_count = 0
    /\ pc = "classify"
    /\ environ = {}
    /\ requests = <<>>
    /\ log = <<>>
    /\ last = NoSync
    /\ ran = FALSE
    /\ sameBatch = FALSE
    /\ prevFailed = FALSE
    /\ procs = <<>>

classify ==
    /\ pc = "classify"
    /\ pc' = "classified"
    /\ last' = [NoSync EXCEPT !.activity = activities[1],
                              !.sport_type = get_sport_type(activities[1])]
    /\ UNCHANGED <<activitiesDb, plannedDb, activities, i, success_count,
                   failure_count, environ, requests, log, ran, sameBatch,
                   prevFailed,
                   procs>>

SpecClassify == InitClassify /\ [][classify]_vars

----------------------------------------------------------------------------
(* The field mapper on its own: create_activity applied to one activity    *)
(* and an empty activities database, the pages.create call succeeding      *)

Measured(key, values) == {<<>>} \cup {key :> v : v \in values}

\* activity dicts of the supported categories, each measurement absent, 0 or not
FieldInputs ==
    {[id |-> 1, type |-> t, start_date |-> <<"2024-05-01", "T", "07:00:00Z">>]
     @@ speed @@ hr @@ cadence @@ watts :
        t \in {"Run", "Ride", "Swim"},
        speed \in Measured("average_speed", {Zero, <<1, 1>>, <<10, 1>>}),
        hr \in Measured("average_heartrate", {Zero, <<150, 1>>}),
        cadence \in Measured("average_cadence", {Zero, <<85, 1>>}),
        watts \in Measured("average_watts", {Zero, <<200, 1>>})}

InitFields ==
    /\ activitiesDb = <<>>
    /\ plannedDb = PlannedAtStart
    /\ activities \in {<<a>> : a \in FieldInputs}
    /\ i = 0
    /\ success_count = 0
    /\ failure_count = 0
    /\ pc = "map"
    /\ environ = {}
    /\ requests = <<>>
    /\ log = <<>>
    /\ last = NoSync
    /\ ran = FALSE
    /\ sameBatch = FALSE
    /\ prevFailed = FALSE
    /\ procs = <<>>

map_fields ==
    /\ pc = "map"
    /\ pc' = "mapped"
    /\ activitiesDb' = create_activity(activitiesDb, activities[1],
                                       get_sport_type(activities[1]), TRUE).db
    /\ UNCHANGED <<plannedDb, activities, i, success_count, failure_count,
                   environ, requests, log, last, ran, sameBatch, prevFailed,
                   procs>>

SpecFields == InitFields /\ [][map_fields]_vars

----------------------------------------------------------------------------
(* Two invocations of sync_activity on the same activity against one store: *)
(* each store call of each invocation is a step of its own                  *)

Invocations == {1, 2}

\* an invocation at the top of sync_activity; absent records whether the store
\* held no page of the activity's id when the invocation's existence query ran
Started ==
    [pc |-> "exists", ret |-> FALSE, sport_type |-> "", activity_id |-> None,
     planned_id |-> None, absent |-> FALSE]

InitConc ==
    /\ activitiesDb = <<>>
    /\ plannedDb = PlannedAtStart
    /\ activities \in {<<a>> : a \in Pool}
    /\ i = 0
    /\ success_count = 0
    /\ failure_count = 0
    /\ pc = "concurrent"
    /\ environ = StravaCredentials \cup NotionCredentials
    /\ requests = <<>>
    /\ log = <<>>
    /\ last = NoSync
    /\ ran = FALSE
    /\ sameBatch = FALSE
    /\ prevFailed = FALSE
    /\ procs = [p \in Invocations |-> Started]

\* notion_client.activity_exists(strava_id), then get_sport_type and the
\* supported-type test, which touch no store
step_activity_exists(p) ==
    /\ pc = "concurrent"
    /\ procs[p].pc = "exists"
    /\ \E ok \in BOOLEAN :
          LET activity == activities[1]
              strava_id == Get(activity, "id", None)
              e == activity_exists(activitiesDb, strava_id, ok)
              sport_type == get_sport_type(activity)
              me == procs[p]
          IN  procs' = [procs EXCEPT ![p] =
                  IF e.raised
                  THEN [me EXCEPT !.pc = "returned"]
                  ELSE IF e.value
                  THEN [me EXCEPT !.pc = "returned", !.ret = TRUE]
                  ELSE IF ~Supported(sport_type)
                  THEN [me EXCEPT !.pc = "returned", !.ret = TRUE,
                                  !.sport_type = sport_type]
                  ELSE [me EXCEPT !.pc = "create", !.sport_type = sport_type,
                                  !.absent = \A q \in DOMAIN activitiesDb :
                                      activitiesDb[q].StravaID # strava_id]]
    /\ UNCHANGED <<activitiesDb, plannedDb, activities, i, success_count,
                   failure_count, pc, environ, requests, log, last, ran, sameBatch,
                   prevFailed>>

\* notion_client.create_activity(activity, sport_type)
step_create_activity(p) ==
    /\ pc = "concurrent"
    /\ procs[p].pc = "create"
    /\ \E ok \in BOOLEAN :
          LET c == create_activity(activitiesDb, activities[1], procs[p].sport_type, ok)
              me == procs[p]
          IN  /\ activitiesDb' = c.db
              /\ procs' = [procs EXCEPT ![p] =
                     IF c.raised \/ c.page_id = None
                     THEN [me EXCEPT !.pc = "returned"]
                     ELSE [me EXCEPT !.pc = "find", !.activity_id = c.page_id]]
    /\ UNCHANGED <<plannedDb, activities, i, success_count, failure_count, pc,
                   environ, requests, log, last, ran, sameBatch, prevFailed>>

\* notion_client.find_planned_activity(activity_date, sport_type)
step_find_planned_activity(p) ==
    /\ pc = "concurrent"
    /\ procs[p].pc = "find"
    /\ \E ok \in BOOLEAN :
          LET activity_date == Get(activities[1], "start_date", None)
              f == find_planned_activity(plannedDb, activity_date,
                                         procs[p].sport_type, ok)
              me == procs[p]
          IN  procs' = [procs EXCEPT ![p] =
                  IF f.raised
                  THEN [me EXCEPT !.pc = "returned"]
                  ELSE IF f.planned_id = None
                  THEN [me EXCEPT !.pc = "returned", !.ret = TRUE]
                  ELSE [me EXCEPT !.pc = "link", !.planned_id = f.planned_id]]
    /\ UNCHANGED <<activitiesDb, plannedDb, activities, i, success_count,
                   failure_count, pc, environ, requests, log, last, ran, sameBatch,
                   prevFailed>>

\* notion_client.link_to_planned_activity(activity_id, planned_id)
step_link_to_planned_activity(p) ==
    /\ pc = "concurrent"
    /\ procs[p].pc = "link"
    /\ \E ok \in BOOLEAN :
          LET l == link_to_planned_activity(activitiesDb, procs[p].activity_id,
                                            procs[p].planned_id, ok)
              me == procs[p]
          IN  /\ activitiesDb' = l.db
              /\ procs' = [procs EXCEPT ![p] =
                     IF l.raised
                     THEN [me EXCEPT !.pc = "returned"]
                     ELSE IF ~l.ret
                     THEN [me EXCEPT !.pc = "returned", !.ret = TRUE]
                     ELSE [me EXCEPT !.pc = "status"]]
    /\ UNCHANGED <<plannedDb, activities, i, success_count, failure_count, pc,
                   environ, requests, log, last, ran, sameBatch, prevFailed>>

\* notion_client.update_planned_status(planned_id, "Done"), then return True
step_update_planned_status(p) ==
    /\ pc = "concurrent"
    /\ procs[p].pc = "status"
    /\ \E ok \in BOOLEAN :
          LET u == update_planned_status(plannedDb, procs[p].planned_id, "Done", ok)
              me == procs[p]
          IN  /\ plannedDb' = u.pdb
              /\ procs' = [procs EXCEPT ![p] =
                     [me EXCEPT !.pc = "returned", !.ret = ~u.raised]]
    /\ UNCHANGED <<activitiesDb, activities, i, success_count, failure_count, pc,
                   environ, requests, log, last, ran, sameBatch, prevFailed>>

NextConc ==
    \E p \in Invocations :
        \/ step_activity_exists(p)
        \/ step_create_activity(p)
        \/ step_find_planned_activity(p)
        \/ step_link_to_planned_activity(p)
        \/ step_update_planned_status(p)

SpecConc == InitConc /\ [][NextConc]_vars

----------------------------------------------------------------------------
(* Properties *)

\* a sync_activity call has been made in this run
Synced == last.line # ""

\* the planned pages of the activity's date and category, as the store holds them
PlannedMatches(activity, sport_type) ==
    {p \in DOMAIN plannedDb :
        /\ plannedDb[p].Date = date_only(activity.start_date)
        /\ plannedDb[p].Type = sport_type}

First(S) == CHOOSE p \in S : \A q \in S : p <= q

Count(line) == Cardinality({k \in DOMAIN log : log[k] = line})

\* C1: after any sequence of batch runs, with repeated identifiers and store
\* failures, no two pages of the activities database carry the same Strava ID.
C1_UniqueStravaId ==
    \A p, q \in DOMAIN activitiesDb :
        activitiesDb[p].StravaID = activitiesDb[q].StravaID => p = q

\* a list repeating an identifier was processed against a store holding others
C1_Witness ==
    /\ i = 2
    /\ activities[1] = activities[2]
    /\ log = <<"synced", "duplicate">>
    /\ Len(activitiesDb) >= 2

C3_Original ==
    last.present =>
        /\ ~last.changed /\ ~last.create_called
        /\ ~last.link_called /\ ~last.status_called
        /\ last.ret

\* C3 (amended): an activity whose id is already in the store changes nothing in
\* the store (no create, no relation write, no status write); it is counted as a
\* success when the existence query succeeds, as a failure when that query fails.
C3_DuplicateIsNoOp ==
    last.present =>
        /\ ~last.changed /\ ~last.create_called
        /\ ~last.link_called /\ ~last.status_called
        /\ last.ret = ~last.exists_failed
        /\ (last.ret => success_count >= 1)

C3_Witness ==
    /\ last.present /\ last.exists /\ last.ret
    /\ last.line = "duplicate"
    /\ success_count >= 1

\* C4 (as stated): an activity classified Other creates no record and is counted
\* as a success.
C4_Original ==
    (Synced /\ get_sport_type(last.activity) = "Other") =>
        /\ ~last.create_called
        /\ last.ret

\* C4 (amended): an activity classified Other creates no record; it is counted
\* as a success unless the existence query, which runs first, fails, and then
\* it is counted as a failure.
C4_OtherCreatesNothing ==
    (Synced /\ get_sport_type(last.activity) = "Other") =>
        /\ ~last.create_called /\ ~last.changed
        /\ last.ret = ~last.exists_failed
        /\ (last.ret => success_count >= 1)

C4_Witness ==
    /\ last.line = "unsupported"
    /\ last.sport_type = "Other"
    /\ last.ret
    /\ ~last.present

\* C5: when exactly one activity of a batch fails at creation and nothing else
\* fails, every activity of the batch is processed and the run ends with
\* failure_count = 1 and success_count = N - 1.
C5_OneCreationFailure ==
    (pc = "done" /\ Count("create_failed") = 1 /\ Count("error") = 0) =>
        /\ i = Len(activities)
        /\ Len(log) = Len(activities)
        /\ failure_count = 1
        /\ success_count = Len(activities) - 1

\* the creation failure came first and the rest of the batch was still synced
C5_Witness ==
    /\ pc = "done"
    /\ Len(activities) = MaxBatch
    /\ log[1] = "create_failed"
    /\ \A k \in 2..Len(log) : log[k] = "synced"
    /\ Len(log) = MaxBatch

\* C6: once create_activity has returned a page id, the activity is counted as a
\* success whatever the planned query, the link and the status write do.
C6_CreatedIsSuccess ==
    last.activity_id # None => (last.ret /\ last.line = "synced" /\ success_count >= 1)

\* a created activity whose relation write failed
C6_Witness ==
    /\ last.activity_id # None
    /\ last.link_called /\ ~last.link_success
    /\ last.ret

\* C7: when the existence query fails, no create call is made for the activity
\* and it is counted as a failure.
C7_ExistsFailureAborts ==
    last.exists_failed =>
        /\ ~last.create_called /\ ~last.changed
        /\ ~last.ret
        /\ failure_count >= 1

\* the query failed for an activity that is not in the store
C7_Witness ==
    /\ last.exists_failed /\ ~last.present
    /\ Supported(get_sport_type(last.activity))
    /\ last.line = "error"

C9_OneToOne ==
    /\ \A a \in DOMAIN activitiesDb : Len(activitiesDb[a].PlannedActivity) <= 1
    /\ \A a, b \in DOMAIN activitiesDb :
        (/\ activitiesDb[a].PlannedActivity # <<>>
         /\ activitiesDb[a].PlannedActivity = activitiesDb[b].PlannedActivity)
        => a = b

\* the category the classifier is said to give: the sub-type, or the type when
\* the sub-type is absent or empty, looked up in the table, Other when unmapped
ClaimedCategory(activity) ==
    LET type == Get(activity, "type", "")
        sub == IF "sport_type" \notin DOMAIN activity \/ activity.sport_type = ""
               THEN type ELSE activity.sport_type
    IN  IF sub \in DOMAIN SPORT_TYPE_MAP THEN SPORT_TYPE_MAP[sub] ELSE "Other"

\* C10: get_sport_type looks up the sub-type, falling back to the type when the
\* sub-type is absent or empty; unmapped labels give Other.
C10_Classifier ==
    pc = "classified" => last.sport_type = ClaimedCategory(last.activity)

\* the derived fields of each category with the measurement each is computed from
DerivedFrom ==
    [Run |-> ("Average Pace" :> "average_speed") @@
             ("Average HR" :> "average_heartrate") @@
             ("Cadence" :> "average_cadence"),
     Ride |-> ("Average Speed" :> "average_speed") @@
              ("Average Power" :> "average_watts") @@
              ("Average HR" :> "average_heartrate"),
     Swim |-> ("Average Pace" :> "average_speed")]

\* C11: a derived field is in the created record only when the measurement it is
\* computed from is present and not 0 (so a Run or Ride without average speed
\* has no "Average Pace" / "Average Speed").
C11_DerivedFieldsGuarded ==
    pc = "mapped" =>
        LET page == activitiesDb[1]
            fields == DerivedFrom[page.Type]
        IN  \A f \in DOMAIN fields :
                f \in DOMAIN page => Truthy(activities[1], fields[f])

\* C12: with one of the six credentials missing the run raises before any
\* processing: no request to Strava, no sync_activity call (so no store call).
C12_MissingCredentialIsFatal ==
    (pc # "idle" /\ ~((StravaCredentials \cup NotionCredentials) \subseteq environ)) =>
        /\ pc = "fatal"
        /\ requests = <<>>
        /\ log = <<>>
        /\ last = NoSync

\* the Strava credentials are complete, one of Notion's is missing
C12_Witness ==
    /\ pc = "fatal"
    /\ StravaCredentials \subseteq environ
    /\ Cardinality(NotionCredentials \cap environ) = 2
    /\ requests = <<>>

\* C13: the status write is attempted only after the link write of the same call,
\* from the created page to that planned page, succeeded; when the link write
\* fails there is no status write and the planned database is unchanged.
C13_StatusOnlyAfterLink ==
    /\ last.status_called =>
          /\ last.link_called /\ ~last.link_failed
          /\ last.activity_id # None
          /\ activitiesDb[last.activity_id].PlannedActivity = <<last.planned_id>>
    /\ last.link_failed => (~last.status_called /\ ~last.planned_changed)

C13_Witness ==
    /\ last.link_failed
    /\ last.planned_id # None
    /\ plannedDb[last.planned_id].Status = "Pending"
    /\ last.ret

\* the date-only part of a start timestamp: what precedes the first "T"
DatePart(start) ==
    LET ts == {k \in DOMAIN start : start[k] = "T"}
    IN  IF ts = {} THEN start ELSE SubSeq(start, 1, First(ts) - 1)

PlannedOnDate(activity, sport_type) ==
    {p \in DOMAIN plannedDb :
        /\ plannedDb[p].Date = DatePart(activity.start_date)
        /\ plannedDb[p].Type = sport_type}

\* C14: find_planned_activity returns the first planned page, in store order, of
\* the activity's date-only start and category; it returns no match exactly when
\* there is none or the query fails.
C14_FirstMatch ==
    last.find_called =>
        LET m == PlannedOnDate(last.activity, last.sport_type)
        IN  /\ (last.planned_id = None) = (m = {} \/ last.find_failed)
            /\ last.planned_id # None =>
                  (last.planned_id \in m /\ \A q \in m : last.planned_id <= q)

\* two pages match, a third of the same date has another category
C14_Witness ==
    /\ last.find_called /\ ~last.find_failed
    /\ Cardinality(PlannedOnDate(last.activity, last.sport_type)) = 2
    /\ last.planned_id = First(PlannedOnDate(last.activity, last.sport_type))
    /\ \E p \in DOMAIN plannedDb :
          /\ plannedDb[p].Date = DatePart(last.activity.start_date)
          /\ plannedDb[p].Type # last.sport_type

\* C15: a batch runs to completion: the activities are processed one at a time
\* in the order of the list, each once; an error counts as one failure and the
\* next activity is processed; at the end success_count + failure_count = N.
BatchCounts ==
    /\ pc \in {"loop", "done"} =>
          /\ success_count + failure_count = i
          /\ Len(log) = i
          /\ i <= Len(activities)
          /\ failure_count = Count("error") + Count("create_failed")
          /\ (i >= 1 => last.activity = activities[i])
    /\ pc = "done" => i = Len(activities)

BatchStep ==
    (pc = "loop" /\ pc' = "loop") =>
        /\ i' = i + 1
        /\ last'.activity = activities[i + 1]
        /\ activities' = activities

C15_BatchCompletes ==
    /\ []BatchCounts
    /\ [][BatchStep]_vars
    /\ (pc = "loop") ~> (pc = "done")

\* the first activity raised an error, the second was still synced
C15_Witness ==
    /\ pc = "done"
    /\ Len(activities) = 2
    /\ log = <<"error", "synced">>
    /\ success_count = 1 /\ failure_count = 1

\* C16: the planned pages, their dates and categories never change; a planned
\* page changes only by its status becoming "Done", in a sync_activity call that
\* created a record and matched that page by date and category.
PlannedFrame ==
    /\ Len(plannedDb) = Len(PlannedAtStart)
    /\ \A p \in DOMAIN plannedDb :
          /\ plannedDb[p].Date = PlannedAtStart[p].Date
          /\ plannedDb[p].Type = PlannedAtStart[p].Type

PlannedStep ==
    \A p \in DOMAIN plannedDb :
        plannedDb'[p] # plannedDb[p] =>
            /\ plannedDb'[p] = [plannedDb[p] EXCEPT !.Status = "Done"]
            /\ Len(activitiesDb') = Len(activitiesDb) + 1
            /\ last'.activity_id = Len(activitiesDb')
            /\ last'.planned_id = p
            /\ plannedDb[p].Date = DatePart(last'.activity.start_date)
            /\ plannedDb[p].Type = last'.sport_type

C16_PlannedFrame == []PlannedFrame /\ [][PlannedStep]_vars

C16_Witness ==
    /\ last.planned_changed
    /\ plannedDb[1].Status = "Done"
    /\ plannedDb[2].Status = "Pending"
    /\ plannedDb[3].Status = "Pending"

\* C18: the Date of every created record is date-only: the start timestamp cut
\* at the first "T", the value the matcher filters on.
C18_DateIsDateOnly ==
    /\ \A p \in DOMAIN activitiesDb :
          activitiesDb[p].Date = DatePart(activitiesDb[p].Date)
    /\ last.activity_id # None =>
          activitiesDb[last.activity_id].Date = DatePart(last.activity.start_date)

\* C19: when sync_activity returns False, the call has left the activities and
\* the planned database unchanged: no record was created, nothing was written.
C19_FailureLeavesStore ==
    (Synced /\ ~last.ret) =>
        /\ ~last.changed
        /\ last.activity_id = None
        /\ ~last.link_called /\ ~last.status_called
        /\ failure_count >= 1

C19_Witness ==
    /\ last.line = "create_failed"
    /\ last.create_called
    /\ ~last.changed
    /\ failure_count >= 1

\* C20: a record's relation, and the "Done" status it triggers, are written only
\* in the sync_activity call that creates the record: a stored record never
\* changes afterwards, a planned status changes only in a step that creates a
\* record, and a duplicate leaves the store as it is.
NoRetryStep ==
    /\ \A a \in DOMAIN activitiesDb :
          a \in DOMAIN activitiesDb' /\ activitiesDb'[a] = activitiesDb[a]
    /\ plannedDb' # plannedDb =>
          (Len(activitiesDb') = Len(activitiesDb) + 1
           /\ last'.activity_id = Len(activitiesDb'))
    /\ (last' # last /\ last'.line = "duplicate") =>
          UNCHANGED <<activitiesDb, plannedDb>>

C20_NoRetry == [][NoRetryStep]_vars

\* a rerun skipped, as a duplicate, a record that has no relation although a
\* planned page of its date and category exists
C20_Witness ==
    /\ sameBatch
    /\ last.line = "duplicate"
    /\ \E a \in DOMAIN activitiesDb :
          /\ activitiesDb[a].StravaID = last.activity.id
          /\ activitiesDb[a].PlannedActivity = <<>>
          /\ PlannedOnDate(last.activity, activitiesDb[a].Type) # {}

\* C17: with two invocations on one not yet stored activity, two records of one
\* Strava ID come about, and only by the race: each invocation creates only after
\* its own existence query ran against a store without that id, so two records
\* of one id mean both queries ran before either record was created.
SharesId(a, b) ==
    a # b /\ activitiesDb[a].StravaID = activitiesDb[b].StravaID

C17_DuplicateOnlyByRace ==
    pc = "concurrent" =>
        /\ \A p \in Invocations : procs[p].activity_id # None => procs[p].absent
        /\ Len(activitiesDb) <= Cardinality(Invocations)
        /\ (\E a, b \in DOMAIN activitiesDb : SharesId(a, b)) =>
              \A p \in Invocations :
                  procs[p].absent /\ procs[p].activity_id # None

\* both invocations returned True and the store holds two records of the id
C17_Witness ==
    /\ pc = "concurrent"
    /\ \E a, b \in DOMAIN activitiesDb : SharesId(a, b)
    /\ \A p \in Invocations : procs[p].pc = "returned" /\ procs[p].ret

====
